---- MODULE Spec2Model ----
(***************************************************************************)
(* Model of biggan/data.py: file discovery (glob_image_files), the image   *)
(* transform (load_crop_resize_img), and the dataset construction pipeline *)
(* (create_dataset) with its thread workers, the lock-guarded reservation  *)
(* counter, the two memory-mapped .npy files, their re-heading and the     *)
(* .npz archive.                                                           *)
(*                                                                         *)
(* Python lists and arrays are 0-based; the sequences files and classes    *)
(* are 1-based here, so files[index] of the code is files[index + 1].      *)
(***************************************************************************)
EXTENDS Integers, Sequences, FiniteSets, TLC

\* ------------------------------------------------------------------ bounds
\* most files in an enumerated input directory (EndToEndDir, one fixed input, has 6)
MaxFiles == 2
\* most subdirectories of the input directory
MaxDirs == 2
\* most worker threads joblib runs at once (n_jobs of the active backend)
MaxJobs == 2
\* most distinct base names of the files of the discovery inputs
MaxNames == 2
\* the image_size argument of create_dataset
ImageSize == 2

\* largest global batch size of the enumerated calls
MaxBatch == 12
\* most GPUs of the enumerated calls
MaxGpus == 4

\* longest side of the images, and largest image_size, of the enumerated
\* calls of load_crop_resize_img
MaxSide == 6

\* ------------------------------------------------------------- input data
\* A file name is subdir/name.ext: subdirectories and base names are numbered
\* in their sorted (lexicographic) order.
Filename(d, n, e) == [subdir |-> d, name |-> n, ext |-> e]

NoFile == Filename(0, 0, "")

\* What cv2.imread gives for a file: None for a file it cannot decode,
\* otherwise an array of shape (height, width, 3).
Image(h, w) == [isNone |-> FALSE, shape |-> <<h, w>>]

ImreadNone == [isNone |-> TRUE, shape |-> <<0, 0>>]

\* undersized (shorter side ImageSize - 1), shorter side exactly ImageSize
\* (tall), and shorter side above ImageSize (wide)
TooSmallImage == Image(ImageSize + 1, ImageSize - 1)

ExactImage == Image(ImageSize + 2, ImageSize)

LargeImage == Image(ImageSize + 1, ImageSize + 2)

ValidImages == {ExactImage, LargeImage}

Images == ValidImages \cup {TooSmallImage, ImreadNone}

\* the extensions glob_image_files searches, in its scan order
Patterns == <<"JPG", "jpg", "JPEG", "jpeg", "PNG", "png">>

\* the extensions of the files of the discovery inputs ("gif" matches nothing)
InputExts == {"jpg", "PNG", "gif"}

\* A directory: its immediate subdirectories 1..ndirs and its files' contents.
Dir(n, c) == [ndirs |-> n, contents |-> c]

RECURSIVE SubsetsUpTo(_, _)
\* the subsets of S of at most k elements
SubsetsUpTo(S, k) ==
    IF k = 0 THEN {{}}
    ELSE LET smaller == SubsetsUpTo(S, k - 1)
         IN  smaller \cup {t \cup {x} : t \in smaller, x \in S}

RECURSIVE SumTo(_, _)
SumTo(f, n) == IF n = 0 THEN 0 ELSE f[n] + SumTo(f, n - 1)

\* Inputs of the pipeline: subdirectory d holds counts[d] files 1.jpg, 2.jpg, ...
\* with any contents; at most MaxFiles files in all.
PipelineDirs ==
    UNION {
        LET paths == {Filename(d, n, "jpg") : d \in 1..MaxDirs, n \in 1..MaxFiles}
            mine  == {p \in paths : p.name <= counts[p.subdir]}
        IN  {Dir(MaxDirs, c) : c \in [mine -> Images]}
        : counts \in {k \in [1..MaxDirs -> 0..MaxFiles] : SumTo(k, MaxDirs) <= MaxFiles}
    }

\* catA: 3 valid images; catB: 2 valid images and 1 undersized image
EndToEndDir ==
    Dir(2, [p \in {Filename(d, n, "jpg") : d \in 1..2, n \in 1..3} |->
              IF p.subdir = 2 /\ p.name = 2 THEN TooSmallImage
              ELSE IF p.name = 1 THEN LargeImage ELSE ExactImage])

\* Directories whose files match no pattern of the search
NoImageDirs ==
    LET paths == {Filename(d, n, "gif") : d \in 1..MaxDirs, n \in 1..MaxNames}
    IN  {Dir(MaxDirs, [p \in s |-> ExactImage]) : s \in SubsetsUpTo(paths, MaxFiles)}

\* Inputs of file discovery: at most MaxFiles files of any subdirectory, base
\* name and extension, all decodable.
GlobDirs ==
    LET paths == {Filename(d, n, e) : d \in 1..MaxDirs, n \in 1..MaxNames, e \in InputExts}
    IN  {Dir(MaxDirs, [p \in s |-> ExactImage]) : s \in SubsetsUpTo(paths, MaxFiles)}

\* ------------------------------------------------------- glob_image_files
RECURSIVE SortedByName(_)
\* sorted(...) of the matches of one pattern: one subdirectory, one extension
SortedByName(S) ==
    IF S = {} THEN <<>>
    ELSE LET first == CHOOSE p \in S : \A q \in S : p.name <= q.name
         IN  <<first>> \o SortedByName(S \ {first})

\* glob.glob(os.path.join(subdir, "*." + extension)), sorted
GlobGroup(dir, d, e) ==
    SortedByName({p \in DOMAIN dir.contents : p.subdir = d /\ p.ext = e})

\* the inner list: one group per subdirectory (sorted) and pattern, in scan order
AllGroups(dir) ==
    [k \in 1..(dir.ndirs * Len(Patterns)) |->
        GlobGroup(dir, ((k - 1) \div Len(Patterns)) + 1,
                  Patterns[((k - 1) % Len(Patterns)) + 1])]

\* mutant: the empty groups are kept
GroupsUnfiltered(dir) == AllGroups(dir)

\* groups: the groups that are not empty
Groups(dir) == SelectSeq(AllGroups(dir), LAMBDA g : g /= <<>>)

RECURSIVE FlattenFiles(_)
FlattenFiles(groups) ==
    IF groups = <<>> THEN <<>> ELSE Head(groups) \o FlattenFiles(Tail(groups))

RECURSIVE FlattenLabels(_, _)
\* i for every file of the i-th group (enumerate counts from 0)
FlattenLabels(groups, i) ==
    IF groups = <<>> THEN <<>>
    ELSE [j \in 1..Len(Head(groups)) |-> i] \o FlattenLabels(Tail(groups), i + 1)

glob_image_files(dir) ==
    [files |-> FlattenFiles(Groups(dir)), labels |-> FlattenLabels(Groups(dir), 0)]

\* --------------------------------------------------- load_crop_resize_img
\* np.argmin of (height, width): the first axis holding the minimum
ArgMin(size) == IF size[1] <= size[2] THEN 1 ELSE 2

\* mutant: the offset is not halved
CropSliceOffCentre(size, j) ==
    IF j = ArgMin(size) THEN <<0, size[j]>>
    ELSE LET start == size[j] - size[ArgMin(size)]
         IN  <<start, start + size[ArgMin(size)]>>

\* the slice of axis j as [start, stop): the whole axis for the shorter one
CropSlice(size, j) ==
    IF j = ArgMin(size) THEN <<0, size[j]>>
    ELSE LET start == (size[j] - size[ArgMin(size)]) \div 2
         IN  <<start, start + size[ArgMin(size)]>>

\* the array of zeros a fresh memory-mapped file holds
ZeroImg == [src |-> NoFile, rows |-> <<0, 0>>, cols |-> <<0, 0>>, side |-> 0]

\* mutant: an image of exactly the final size is rejected too
TooSmallOrEqual(size, image_size) == size[ArgMin(size)] <= image_size

\* if size[min_ax] < image_size
TooSmall(size, image_size) == size[ArgMin(size)] < image_size

\* The outcome of load_crop_resize_img: the exception it raises ("none" when it
\* returns) and the array returned: the crop of the file's image resized to
\* image_size x image_size.
load_crop_resize_img(dir, filename, image_size) ==
    LET image == dir.contents[filename]
    IN  IF image.isNone THEN [exc |-> "AttributeError", img |-> ZeroImg]
        ELSE IF TooSmall(image.shape, image_size)
        THEN [exc |-> "ImageTooSmall", img |-> ZeroImg]
        ELSE [exc |-> "none",
              img |-> [src |-> filename,
                       rows |-> CropSlice(image.shape, 1),
                       cols |-> CropSlice(image.shape, 2),
                       side |-> image_size]]

\* ------------------------------------------------------------------ state
VARIABLES
    data_dir,        \* the input directory (read only)
    n_jobs,          \* threads of the joblib backend in force
    pc,              \* the statement create_dataset is at
    exc,             \* the exception propagating out of create_dataset
    files, classes,  \* what glob_image_files returned
    features_file, labels_file,      \* the temporary files: none, exists, removed
    features_header, labels_header,  \* leading dimension in each .npy header
    features_data, labels_data,      \* the entries each .npy file holds
    features_shape, labels_shape,    \* leading dimension of the memmap bound to each name
    target,          \* mutable_target[0]
    lock,            \* the thread holding the lock, -1 when free
    wpc,             \* per task of process: where it is
    img,             \* per task: the local img
    reservation,     \* per task: the local reservation
    incr,            \* per task: the value target[0] += 1 has read
    logged,          \* tasks that logged a warning
    feature_writers, label_writers,  \* per array index: the tasks that wrote it
    archive,         \* the output .npz
    finalized,       \* per array: the resize_npy_file calls that rewrote its header
    ds,              \* what get_train_data made of the archive
    replica,         \* a call of get_per_replica_batch_size: arguments and outcome
    crop             \* a call of load_crop_resize_img on one image: arguments and outcome

vars == <<data_dir, n_jobs, pc, exc, files, classes, features_file, labels_file,
          features_header, labels_header, features_data, labels_data,
          features_shape, labels_shape, target, lock, wpc, img, reservation,
          incr, logged, feature_writers, label_writers, archive, finalized, ds,
          replica, crop>>

\* the calls of the other functions of the module
call_vars == <<ds, replica, crop>>

input_vars == <<data_dir, n_jobs>>

glob_vars == <<files, classes>>

tmp_vars == <<features_file, labels_file>>

npy_vars == <<features_header, labels_header, features_data, labels_data,
              features_shape, labels_shape>>

counter_vars == <<target, lock>>

task_vars == <<wpc, img, reservation, incr, logged, feature_writers, label_writers>>

num_files == Len(files)

\* the arguments of process: range(num_files)
Tasks == 0..(num_files - 1)

NoArchive == [state |-> "absent", entries |-> <<>>]

\* get_train_data not called
NoDataset == [state |-> "none", n |-> -1, num_classes |-> -1]

\* get_per_replica_batch_size not called
NoReplicaCall == [pc |-> "idle", global_batch_size |-> 0, n_gpus |-> 0, exc |-> "none",
                  result |-> -1]

\* load_crop_resize_img not called on its own
NoCropCall == [pc |-> "idle", shape |-> <<0, 0>>, image_size |-> 0, exc |-> "none",
               img |-> ZeroImg]

InitRest ==
    /\ pc = "glob"
    /\ exc = "none"
    /\ files = <<>>
    /\ classes = <<>>
    /\ features_file = "none"
    /\ labels_file = "none"
    /\ features_header = -1
    /\ labels_header = -1
    /\ features_data = <<>>
    /\ labels_data = <<>>
    /\ features_shape = -1
    /\ labels_shape = -1
    /\ target = 0
    /\ lock = -1
    /\ wpc = <<>>
    /\ img = <<>>
    /\ reservation = <<>>
    /\ incr = <<>>
    /\ logged = {}
    /\ feature_writers = <<>>
    /\ label_writers = <<>>
    /\ archive = NoArchive
    /\ finalized = [features |-> 0, labels |-> 0]
    /\ ds = NoDataset

Init ==
    /\ data_dir \in PipelineDirs \cup NoImageDirs \cup {EndToEndDir}
    /\ n_jobs \in 1..MaxJobs
    /\ InitRest
    /\ replica = NoReplicaCall
    /\ crop = NoCropCall

\* ---------------------------------------------------------- create_dataset
\* files, classes = glob_image_files(data_dir)
GlobFiles ==
    /\ pc = "glob"
    /\ files' = glob_image_files(data_dir).files
    /\ classes' = glob_image_files(data_dir).labels
    /\ pc' = "check"
    /\ UNCHANGED <<input_vars, call_vars, finalized, exc, tmp_vars, npy_vars, counter_vars, task_vars, archive>>

\* mutant: the empty result is not detected
NoFilesFoundIgnored == FALSE

\* if num_files == 0
NoFilesFound == num_files = 0

\* raise IOError('no image files found ...')
RaiseNoFiles ==
    /\ pc = "check"
    /\ NoFilesFound
    /\ exc' = "IOError"
    /\ pc' = "raised"
    /\ UNCHANGED <<input_vars, call_vars, finalized, glob_vars, tmp_vars, npy_vars, counter_vars, task_vars, archive>>

FilesFound ==
    /\ pc = "check"
    /\ ~NoFilesFound
    /\ pc' = "mkstemp_features"
    /\ UNCHANGED <<input_vars, call_vars, finalized, exc, glob_vars, tmp_vars, npy_vars, counter_vars, task_vars, archive>>

\* temporary_file() as features_file: tempfile.mkstemp()
EnterFeaturesFile ==
    /\ pc = "mkstemp_features"
    /\ features_file' = "exists"
    /\ pc' = "mkstemp_labels"
    /\ UNCHANGED <<input_vars, call_vars, finalized, exc, glob_vars, labels_file, npy_vars, counter_vars, task_vars, archive>>

\* temporary_file() as labels_file: tempfile.mkstemp()
EnterLabelsFile ==
    /\ pc = "mkstemp_labels"
    /\ labels_file' = "exists"
    /\ pc' = "open_features"
    /\ UNCHANGED <<input_vars, call_vars, finalized, exc, glob_vars, features_file, npy_vars, counter_vars, task_vars, archive>>

\* features = open_memmap(features_file, shape=(num_files, ...), mode="w+")
OpenFeatures ==
    /\ pc = "open_features"
    /\ features_header' = num_files
    /\ features_data' = [i \in Tasks |-> ZeroImg]
    /\ features_shape' = num_files
    /\ pc' = "open_labels"
    /\ UNCHANGED <<input_vars, call_vars, finalized, exc, glob_vars, tmp_vars, labels_header, labels_data,
                   labels_shape, counter_vars, task_vars, archive>>

\* labels = open_memmap(labels_file, shape=(num_files,), mode="w+");
\* mutable_target = [0]; lock = threading.Lock(); the tasks of process
OpenLabels ==
    /\ pc = "open_labels"
    /\ labels_header' = num_files
    /\ labels_data' = [i \in Tasks |-> 0]
    /\ labels_shape' = num_files
    /\ target' = 0
    /\ lock' = -1
    /\ wpc' = [w \in Tasks |-> "idle"]
    /\ img' = [w \in Tasks |-> ZeroImg]
    /\ reservation' = [w \in Tasks |-> -1]
    /\ incr' = [w \in Tasks |-> -1]
    /\ logged' = {}
    /\ feature_writers' = [i \in Tasks |-> {}]
    /\ label_writers' = [i \in Tasks |-> {}]
    /\ pc' = "parallel"
    /\ UNCHANGED <<input_vars, call_vars, finalized, exc, glob_vars, tmp_vars, features_header, features_data,
                   features_shape, archive>>

\* ------------------------------------------------------ process (a task)
\* a task a thread of the pool is running
Active(w) == wpc[w] \in {"acquire", "reserve", "incr_load", "incr_store", "release",
                         "write_features", "write_labels"}

\* Parallel(prefer="threads") hands the tasks out in order, to at most n_jobs
\* threads; run in the calling thread (n_jobs = 1) an exception ends the loop.
Dispatched(w) ==
    /\ pc = "parallel"
    /\ wpc[w] = "idle"
    /\ \A v \in Tasks : v < w => wpc[v] /= "idle"
    /\ Cardinality({v \in Tasks : Active(v)}) < n_jobs
    /\ n_jobs = 1 => \A v \in Tasks : wpc[v] /= "raised"

\* except ImageTooSmall as err
Caught(e) == e = "ImageTooSmall"

\* try: img = load_crop_resize_img(files[index], image_size)
\* except ImageTooSmall: logging.warning(...)
Load(w) ==
    /\ Dispatched(w)
    /\ LET r == load_crop_resize_img(data_dir, files[w + 1], ImageSize)
       IN  /\ img' = [img EXCEPT ![w] = r.img]
           /\ logged' = IF r.exc /= "none" /\ Caught(r.exc) THEN logged \cup {w} ELSE logged
           /\ wpc' = [wpc EXCEPT ![w] = IF r.exc = "none" THEN "acquire"
                                         ELSE IF Caught(r.exc) THEN "skipped"
                                         ELSE "raised"]
    /\ UNCHANGED <<input_vars, call_vars, finalized, pc, exc, glob_vars, tmp_vars, npy_vars, counter_vars,
                   reservation, incr, feature_writers, label_writers, archive>>

\* mutant: the lock does not exclude
AcquireHeldLock(w) ==
    /\ wpc[w] = "acquire"
    /\ lock' = w
    /\ wpc' = [wpc EXCEPT ![w] = "reserve"]
    /\ UNCHANGED <<input_vars, call_vars, finalized, pc, exc, glob_vars, tmp_vars, npy_vars, target, img,
                   reservation, incr, logged, feature_writers, label_writers, archive>>

\* with lock: (enter)
Acquire(w) ==
    /\ wpc[w] = "acquire"
    /\ lock = -1
    /\ lock' = w
    /\ wpc' = [wpc EXCEPT ![w] = "reserve"]
    /\ UNCHANGED <<input_vars, call_vars, finalized, pc, exc, glob_vars, tmp_vars, npy_vars, target, img,
                   reservation, incr, logged, feature_writers, label_writers, archive>>

\* reservation = copy.copy(target[0])
Reserve(w) ==
    /\ wpc[w] = "reserve"
    /\ reservation' = [reservation EXCEPT ![w] = target]
    /\ wpc' = [wpc EXCEPT ![w] = "incr_load"]
    /\ UNCHANGED <<input_vars, call_vars, finalized, pc, exc, glob_vars, tmp_vars, npy_vars, counter_vars, img,
                   incr, logged, feature_writers, label_writers, archive>>

\* target[0] += 1: the read of target[0]
IncrLoad(w) ==
    /\ wpc[w] = "incr_load"
    /\ incr' = [incr EXCEPT ![w] = target]
    /\ wpc' = [wpc EXCEPT ![w] = "incr_store"]
    /\ UNCHANGED <<input_vars, call_vars, finalized, pc, exc, glob_vars, tmp_vars, npy_vars, counter_vars, img,
                   reservation, logged, feature_writers, label_writers, archive>>

\* target[0] += 1: the store of the sum
IncrStore(w) ==
    /\ wpc[w] = "incr_store"
    /\ target' = incr[w] + 1
    /\ wpc' = [wpc EXCEPT ![w] = "release"]
    /\ UNCHANGED <<input_vars, call_vars, finalized, pc, exc, glob_vars, tmp_vars, npy_vars, lock, img,
                   reservation, incr, logged, feature_writers, label_writers, archive>>

\* mutant: the array writes are inside the with block, the lock still held
ReleaseKeepsLock(w) ==
    /\ wpc[w] = "release"
    /\ wpc' = [wpc EXCEPT ![w] = "write_features"]
    /\ UNCHANGED <<input_vars, call_vars, finalized, pc, exc, glob_vars, tmp_vars, npy_vars,
                   counter_vars, img, reservation, incr, logged, feature_writers,
                   label_writers, archive>>

\* with lock: (exit)
Release(w) ==
    /\ wpc[w] = "release"
    /\ lock' = -1
    /\ wpc' = [wpc EXCEPT ![w] = "write_features"]
    /\ UNCHANGED <<input_vars, call_vars, finalized, pc, exc, glob_vars, tmp_vars, npy_vars, target, img,
                   reservation, incr, logged, feature_writers, label_writers, archive>>

\* features[reservation] = img
WriteFeatures(w) ==
    /\ wpc[w] = "write_features"
    /\ features_data' = [features_data EXCEPT ![reservation[w]] = img[w]]
    /\ feature_writers' = [feature_writers EXCEPT ![reservation[w]] = @ \cup {w}]
    /\ wpc' = [wpc EXCEPT ![w] = "write_labels"]
    /\ UNCHANGED <<input_vars, call_vars, finalized, pc, exc, glob_vars, tmp_vars, features_header, labels_header,
                   labels_data, features_shape, labels_shape, counter_vars, img,
                   reservation, incr, logged, label_writers, archive>>

\* mutant: the task's index is stored in place of its class
IndexAsClass(w) == w

\* mutant: the class is looked up at the reserved index
ClassAtReservation(w) == classes[reservation[w] + 1]

\* classes[index]
ClassOf(w) == classes[w + 1]

\* mutant: the label is stored at the task's own index
WriteLabelsAtIndex(w) ==
    /\ wpc[w] = "write_labels"
    /\ labels_data' = [labels_data EXCEPT ![w] = ClassOf(w)]
    /\ label_writers' = [label_writers EXCEPT ![w] = @ \cup {w}]
    /\ wpc' = [wpc EXCEPT ![w] = "done"]
    /\ UNCHANGED <<input_vars, call_vars, finalized, pc, exc, glob_vars, tmp_vars, features_header, labels_header,
                   features_data, features_shape, labels_shape, counter_vars, img,
                   reservation, incr, logged, feature_writers, archive>>

\* labels[reservation] = classes[index]
WriteLabels(w) ==
    /\ wpc[w] = "write_labels"
    /\ labels_data' = [labels_data EXCEPT ![reservation[w]] = ClassOf(w)]
    /\ label_writers' = [label_writers EXCEPT ![reservation[w]] = @ \cup {w}]
    /\ wpc' = [wpc EXCEPT ![w] = "done"]
    /\ UNCHANGED <<input_vars, call_vars, finalized, pc, exc, glob_vars, tmp_vars, features_header, labels_header,
                   features_data, features_shape, labels_shape, counter_vars, img,
                   reservation, incr, logged, feature_writers, archive>>

\* ------------------------------------------- create_dataset, after the tasks
\* mutant: the tasks are handed out but not waited for
AllTasksDispatched == \A w \in Tasks : wpc[w] /= "idle"

\* every task has returned
AllTasksReturned == \A w \in Tasks : wpc[w] \in {"done", "skipped"}

\* Parallel(...)(...) returns
ParallelReturns ==
    /\ pc = "parallel"
    /\ AllTasksReturned
    /\ pc' = "resize_features"
    /\ UNCHANGED <<input_vars, call_vars, finalized, exc, glob_vars, tmp_vars, npy_vars, counter_vars, task_vars, archive>>

\* Parallel(...)(...) raises the exception of a task; threads at work go on
ParallelRaises ==
    /\ pc = "parallel"
    /\ \E w \in Tasks :
          /\ wpc[w] = "raised"
          /\ exc' = load_crop_resize_img(data_dir, files[w + 1], ImageSize).exc
    /\ pc' = "remove_labels"
    /\ UNCHANGED <<input_vars, call_vars, finalized, glob_vars, tmp_vars, npy_vars, counter_vars, task_vars, archive>>

\* features = resize_npy_file(features, tuple(mutable_target) + features.shape[1:]):
\* the header is rewritten (its padded length does not change, so the entries
\* stay where they are) and the name bound to a memmap of the new shape over the
\* same file; np.memmap(mode="r+") never shortens the file
ResizeFeatures ==
    /\ pc = "resize_features"
    /\ features_header' = target
    /\ features_shape' = target
    /\ finalized' = [finalized EXCEPT !.features = @ + 1]
    /\ pc' = "resize_labels"
    /\ UNCHANGED <<input_vars, call_vars, exc, glob_vars, tmp_vars, labels_header, features_data,
                   labels_data, labels_shape, counter_vars, task_vars, archive>>

\* labels = resize_npy_file(labels, tuple(mutable_target))
ResizeLabels ==
    /\ pc = "resize_labels"
    /\ labels_header' = target
    /\ labels_shape' = target
    /\ finalized' = [finalized EXCEPT !.labels = @ + 1]
    /\ pc' = "open_archive"
    /\ UNCHANGED <<input_vars, call_vars, exc, glob_vars, tmp_vars, features_header, features_data,
                   labels_data, features_shape, counter_vars, task_vars, archive>>

\* what write_array(fid, val) stores: the header of val's shape and val's entries
Entry(key, shape, data) ==
    [key |-> key, shape |-> shape, data |-> [i \in 0..(shape - 1) |-> data[i]]]

\* zipfile_factory(output_npz, mode="w")
OpenArchive ==
    /\ pc = "open_archive"
    /\ archive' = [state |-> "open", entries |-> <<>>]
    /\ pc' = "write_features"
    /\ UNCHANGED <<input_vars, call_vars, finalized, exc, glob_vars, tmp_vars, npy_vars, counter_vars, task_vars>>

\* with zipf.open("features.npy", "w") as fid: write_array(fid, features)
WriteFeaturesEntry ==
    /\ pc = "write_features"
    /\ archive' = [archive EXCEPT !.entries =
                      Append(@, Entry("features.npy", features_shape, features_data))]
    /\ pc' = "write_labels"
    /\ UNCHANGED <<input_vars, call_vars, finalized, exc, glob_vars, tmp_vars, npy_vars, counter_vars, task_vars>>

\* with zipf.open("labels.npy", "w") as fid: write_array(fid, labels)
WriteLabelsEntry ==
    /\ pc = "write_labels"
    /\ archive' = [archive EXCEPT !.entries =
                      Append(@, Entry("labels.npy", labels_shape, labels_data))]
    /\ pc' = "close_archive"
    /\ UNCHANGED <<input_vars, call_vars, finalized, exc, glob_vars, tmp_vars, npy_vars, counter_vars, task_vars>>

\* closing(...): zipf.close()
CloseArchive ==
    /\ pc = "close_archive"
    /\ archive' = [archive EXCEPT !.state = "closed"]
    /\ pc' = "remove_labels"
    /\ UNCHANGED <<input_vars, call_vars, finalized, exc, glob_vars, tmp_vars, npy_vars, counter_vars, task_vars>>

\* mutant: the file is removed after the yield, without try/finally
temporary_file_exit_no_finally(status) == IF exc = "none" THEN "removed" ELSE status

\* temporary_file: finally: os.remove(filename)
temporary_file_exit(status) == "removed"

\* leaving temporary_file() as labels_file
ExitLabelsFile ==
    /\ pc = "remove_labels"
    /\ labels_file' = temporary_file_exit(labels_file)
    /\ pc' = "remove_features"
    /\ UNCHANGED <<input_vars, call_vars, finalized, exc, glob_vars, features_file, npy_vars, counter_vars,
                   task_vars, archive>>

\* leaving temporary_file() as features_file; create_dataset returns or raises
ExitFeaturesFile ==
    /\ pc = "remove_features"
    /\ features_file' = temporary_file_exit(features_file)
    /\ pc' = IF exc = "none" THEN "returned" ELSE "raised"
    /\ UNCHANGED <<input_vars, call_vars, finalized, exc, glob_vars, labels_file, npy_vars, counter_vars,
                   task_vars, archive>>

\* --------------------------------------------------------------- I/O errors
\* tempfile.mkstemp() fails
MkstempFails ==
    /\ pc \in {"mkstemp_features", "mkstemp_labels"}
    /\ exc' = "OSError"
    /\ pc' = IF pc = "mkstemp_features" THEN "raised" ELSE "remove_features"
    /\ UNCHANGED <<input_vars, call_vars, finalized, glob_vars, tmp_vars, npy_vars, counter_vars, task_vars, archive>>

\* open_memmap fails
OpenMemmapFails ==
    /\ pc \in {"open_features", "open_labels"}
    /\ exc' = "OSError"
    /\ pc' = "remove_labels"
    /\ UNCHANGED <<input_vars, call_vars, finalized, glob_vars, tmp_vars, npy_vars, counter_vars, task_vars, archive>>

\* resize_npy_file fails, before or after it rewrote the header
ResizeFails ==
    /\ pc \in {"resize_features", "resize_labels"}
    /\ \E rewritten \in BOOLEAN :
          /\ features_header' = IF rewritten /\ pc = "resize_features"
                                THEN target ELSE features_header
          /\ labels_header' = IF rewritten /\ pc = "resize_labels"
                              THEN target ELSE labels_header
          /\ finalized' = IF ~rewritten THEN finalized
                          ELSE IF pc = "resize_features"
                          THEN [finalized EXCEPT !.features = @ + 1]
                          ELSE [finalized EXCEPT !.labels = @ + 1]
    /\ exc' = "OSError"
    /\ pc' = "remove_labels"
    /\ UNCHANGED <<input_vars, call_vars, glob_vars, tmp_vars, features_data, labels_data,
                   features_shape, labels_shape, counter_vars, task_vars, archive>>

\* opening the archive, writing an entry or closing it fails; closing(...) has
\* closed whatever was written
ArchiveFails ==
    /\ pc \in {"open_archive", "write_features", "write_labels", "close_archive"}
    /\ archive' = IF pc = "open_archive" THEN archive
                  ELSE [archive EXCEPT !.state = "partial"]
    /\ exc' = "OSError"
    /\ pc' = "remove_labels"
    /\ UNCHANGED <<input_vars, call_vars, finalized, glob_vars, tmp_vars, npy_vars, counter_vars, task_vars>>

\* ----------------------------------------------------------- get_train_data
\* labels.max(), of an array that is not empty
MaxLabel(labels) == CHOOSE x \in {labels[i] : i \in DOMAIN labels} :
                        \A i \in DOMAIN labels : labels[i] <= x

\* mutant: the largest label is taken for the number of classes
NumClassesIsMax(labels) == MaxLabel(labels)

\* labels.max() + 1
NumClasses(labels) == MaxLabel(labels) + 1

\* get_train_data(output_npz, batch_size) on the archive create_dataset wrote:
\* labels.max() raises ValueError for an array without entries
GetTrainData ==
    /\ pc = "returned"
    /\ ds.state = "none"
    /\ LET features == archive.entries[1]
           labels == archive.entries[2]
       IN  ds' = IF DOMAIN labels.data = {}
                 THEN [state |-> "raised", n |-> features.shape, num_classes |-> -1]
                 ELSE [state |-> "built", n |-> features.shape,
                       num_classes |-> NumClasses(labels.data)]
    /\ UNCHANGED <<input_vars, replica, crop, finalized, pc, exc, glob_vars, tmp_vars,
                   npy_vars, counter_vars, task_vars, archive>>

\* ------------------------------------------------------------ specification
Next ==
    \/ GlobFiles
    \/ RaiseNoFiles
    \/ FilesFound
    \/ EnterFeaturesFile
    \/ EnterLabelsFile
    \/ OpenFeatures
    \/ OpenLabels
    \/ \E w \in DOMAIN wpc : Load(w)
    \/ \E w \in DOMAIN wpc : Acquire(w)
    \/ \E w \in DOMAIN wpc : Reserve(w)
    \/ \E w \in DOMAIN wpc : IncrLoad(w)
    \/ \E w \in DOMAIN wpc : IncrStore(w)
    \/ \E w \in DOMAIN wpc : Release(w)
    \/ \E w \in DOMAIN wpc : WriteFeatures(w)
    \/ \E w \in DOMAIN wpc : WriteLabels(w)
    \/ ParallelReturns
    \/ ParallelRaises
    \/ ResizeFeatures
    \/ ResizeLabels
    \/ OpenArchive
    \/ WriteFeaturesEntry
    \/ WriteLabelsEntry
    \/ CloseArchive
    \/ ExitLabelsFile
    \/ ExitFeaturesFile
    \/ MkstempFails
    \/ OpenMemmapFails
    \/ ResizeFails
    \/ ArchiveFails
    \/ GetTrainData

Spec == Init /\ [][Next]_vars

\* a step of the thread that called create_dataset, the file system not failing
MainThread ==
    \/ GlobFiles
    \/ RaiseNoFiles
    \/ FilesFound
    \/ EnterFeaturesFile
    \/ EnterLabelsFile
    \/ OpenFeatures
    \/ OpenLabels
    \/ ParallelReturns
    \/ ParallelRaises
    \/ ResizeFeatures
    \/ ResizeLabels
    \/ OpenArchive
    \/ WriteFeaturesEntry
    \/ WriteLabelsEntry
    \/ CloseArchive
    \/ ExitLabelsFile
    \/ ExitFeaturesFile

\* a step of the pool's thread that runs process(w)
Task(w) ==
    /\ w \in DOMAIN wpc
    /\ \/ Load(w)
       \/ Acquire(w)
       \/ Reserve(w)
       \/ IncrLoad(w)
       \/ IncrStore(w)
       \/ Release(w)
       \/ WriteFeatures(w)
       \/ WriteLabels(w)

\* the indices range(num_files) can take over the inputs
TaskIds == 0..(MaxFiles - 1)

\* one subdirectory of at most MaxFiles files, each a valid image, an undersized
\* image or not an image
LiveDirs ==
    {Dir(1, c) : c \in UNION {[{Filename(1, n, "jpg") : n \in 1..k} ->
                                  {ExactImage, TooSmallImage, ImreadNone}] : k \in 0..MaxFiles}}

\* such directories, any number of threads
InitLive ==
    /\ data_dir \in LiveDirs
    /\ n_jobs \in 1..MaxJobs
    /\ InitRest
    /\ replica = NoReplicaCall
    /\ crop = NoCropCall

NextLive == MainThread \/ \E w \in TaskIds : Task(w)

\* create_dataset on a file system that does not fail, every thread that can
\* take a step eventually taking one; threading.Lock is not first come first
\* served, so a thread waiting for it is only weakly fair
SpecLive ==
    /\ InitLive
    /\ [][NextLive]_vars
    /\ WF_vars(MainThread)
    /\ \A w \in TaskIds : WF_vars(Task(w))

\* file discovery alone, over directories of mixed extensions and names
InitGlob ==
    /\ data_dir \in GlobDirs
    /\ n_jobs = 1
    /\ InitRest
    /\ replica = NoReplicaCall
    /\ crop = NoCropCall

NextGlob ==
    \/ GlobFiles
    \/ RaiseNoFiles
    \/ FilesFound

SpecGlob == InitGlob /\ [][NextGlob]_vars

\* ---------------------------------------------- get_per_replica_batch_size
\* the devices of get_strategy: get_gpus() or ["/CPU:0"]
DeviceCount(n_gpus) == IF n_gpus = 0 THEN 1 ELSE n_gpus

\* mutant: the remainder is not checked
get_per_replica_batch_size_unchecked(global_batch_size, n_gpus) ==
    IF n_gpus = 0 THEN [exc |-> "none", result |-> global_batch_size]
    ELSE [exc |-> "none", result |-> global_batch_size \div n_gpus]

\* the exception raised ("none" when it returns) and the value returned
get_per_replica_batch_size(global_batch_size, n_gpus) ==
    IF n_gpus = 0 THEN [exc |-> "none", result |-> global_batch_size]
    ELSE IF global_batch_size % n_gpus /= 0 THEN [exc |-> "ValueError", result |-> -1]
    ELSE [exc |-> "none", result |-> global_batch_size \div n_gpus]

ReplicaCall(g, n) ==
    [pc |-> "call", global_batch_size |-> g, n_gpus |-> n, exc |-> "none", result |-> -1]

\* a call of get_per_replica_batch_size
GetPerReplicaBatchSize ==
    /\ replica.pc = "call"
    /\ LET r == get_per_replica_batch_size(replica.global_batch_size, replica.n_gpus)
       IN  replica' = [replica EXCEPT !.pc = IF r.exc = "none" THEN "returned" ELSE "raised",
                                      !.exc = r.exc,
                                      !.result = r.result]
    /\ UNCHANGED <<input_vars, ds, crop, finalized, pc, exc, glob_vars, tmp_vars, npy_vars,
                   counter_vars, task_vars, archive>>

\* the directory of a run that is not about create_dataset
NoDir == Dir(0, <<>>)

InitBatch ==
    /\ data_dir = NoDir
    /\ n_jobs = 1
    /\ InitRest
    /\ replica \in {ReplicaCall(g, n) : g \in 0..MaxBatch, n \in 0..MaxGpus}
    /\ crop = NoCropCall

NextBatch == GetPerReplicaBatchSize

SpecBatch == InitBatch /\ [][NextBatch]_vars

\* ------------------------------------------ load_crop_resize_img, on its own
CropCall(h, w, s) ==
    [pc |-> "call", shape |-> <<h, w>>, image_size |-> s, exc |-> "none", img |-> ZeroImg]

\* a call of load_crop_resize_img on a decodable file
LoadCropResizeImg ==
    /\ crop.pc = "call"
    /\ LET f == Filename(1, 1, "jpg")
           dir == Dir(1, [p \in {f} |-> Image(crop.shape[1], crop.shape[2])])
           r == load_crop_resize_img(dir, f, crop.image_size)
       IN  crop' = [crop EXCEPT !.pc = IF r.exc = "none" THEN "returned" ELSE "raised",
                                !.exc = r.exc,
                                !.img = r.img]
    /\ UNCHANGED <<input_vars, ds, replica, finalized, pc, exc, glob_vars, tmp_vars, npy_vars,
                   counter_vars, task_vars, archive>>

InitCrop ==
    /\ data_dir = NoDir
    /\ n_jobs = 1
    /\ InitRest
    /\ replica = NoReplicaCall
    /\ crop \in {CropCall(h, w, s) : h \in 1..MaxSide, w \in 1..MaxSide, s \in 1..MaxSide}
                \cup {CropCall(200, 100, 50)}

NextCrop == LoadCropResizeImg

SpecCrop == InitCrop /\ [][NextCrop]_vars

\* ------------------------------------------------------------- properties
Range(f) == {f[x] : x \in DOMAIN f}

\* tasks that have taken their reservation
Reserved == {w \in DOMAIN wpc : wpc[w] \in {"incr_load", "incr_store", "release",
                                            "write_features", "write_labels", "done"}}

\* tasks that have reserved and not yet stored the incremented counter
Incrementing == {w \in DOMAIN wpc : wpc[w] \in {"incr_load", "incr_store"}}

\* the file of a task and what is on disk for it
FileOf(w) == files[w + 1]

ContentOf(w) == data_dir.contents[FileOf(w)]

\* shorter side below image_size / at least image_size, of a decodable image
Undersized(w) ==
    /\ ~ContentOf(w).isNone
    /\ \E j \in 1..2 : ContentOf(w).shape[j] < ImageSize

Valid(w) ==
    /\ ~ContentOf(w).isNone
    /\ \A j \in 1..2 : ContentOf(w).shape[j] >= ImageSize

Unreadable(w) == ContentOf(w).isNone

\* the pair a valid file contributes
PairOf(w) == <<load_crop_resize_img(data_dir, FileOf(w), ImageSize).img, classes[w + 1]>>

C1_Indices ==
    /\ \A v, w \in Reserved : v /= w => reservation[v] /= reservation[w]
    /\ {reservation[w] : w \in Reserved} = 0..(Cardinality(Reserved) - 1)
    /\ target = Cardinality(Reserved) - Cardinality(Incrementing)
    /\ (pc = "parallel" /\ AllTasksReturned) =>
          target = Cardinality({w \in DOMAIN wpc : wpc[w] = "done"})

\* C1: under every interleaving of the tasks that reserve, the indices returned
\* by the reservations made so far are pairwise different and are exactly
\* 0..K-1 for the K reservations made (none skipped); the counter never
\* decreases and, once every task has returned, equals the number of
\* reservations.
C1_Reservations == [](C1_Indices) /\ [][target' >= target]_vars

\* two tasks at work at once, the later one holding index 0
C1_Witness ==
    \E v, w \in DOMAIN wpc :
        /\ v < w
        /\ reservation[w] = 0
        /\ reservation[v] = 1
        /\ wpc[w] = "write_labels"
        /\ wpc[v] = "write_features"

\* C2: no index of features or of labels is ever written by two tasks, and a task
\* writes only at the index of its own reservation.
C2_DisjointWrites ==
    /\ \A i \in DOMAIN feature_writers :
          /\ Cardinality(feature_writers[i]) <= 1
          /\ \A w \in feature_writers[i] : reservation[w] = i
    /\ \A i \in DOMAIN label_writers :
          /\ Cardinality(label_writers[i]) <= 1
          /\ \A w \in label_writers[i] : reservation[w] = i

\* two tasks between their two writes at once, a third one inside the lock
C2_Witness ==
    \E u, v, w \in DOMAIN wpc :
        /\ wpc[u] = "write_labels" /\ u \in feature_writers[reservation[u]]
        /\ wpc[v] = "done" /\ v \in label_writers[reservation[v]]
        /\ lock = w /\ wpc[w] = "incr_store"
        /\ reservation[u] > reservation[v]
        /\ u < v

\* C3: when finalization starts every index below the counter holds a fully
\* written pair: features and labels at that index were written by one and the
\* same task, with the transformed image and the class of that task's file.
C3_FullyWritten ==
    pc = "resize_features" =>
        \A i \in 0..(target - 1) :
            \E w \in DOMAIN wpc :
                /\ feature_writers[i] = {w}
                /\ label_writers[i] = {w}
                /\ <<features_data[i], labels_data[i]>> = PairOf(w)

\* finalization starts with two pairs stored out of scan order
C3_Witness ==
    /\ pc = "resize_features"
    /\ target >= 2
    /\ \E v, w \in DOMAIN wpc : v < w /\ reservation[w] = 0 /\ reservation[v] = 1
    /\ \E w \in DOMAIN wpc : wpc[w] = "skipped"

\* C4 (as claimed): a task whose file cannot be decoded logs a warning, takes no
\* slot, and its error does not leave the pipeline.
C4_UnreadableSkipped ==
    /\ \A w \in DOMAIN wpc :
          (Unreadable(w) /\ wpc[w] /= "idle") => (wpc[w] = "skipped" /\ w \in logged)
    /\ exc /= "AttributeError"

\* the entries of the finalized store
Stored == {<<features_data[i], labels_data[i]>> : i \in 0..(features_shape - 1)}

ValidTasks == {w \in DOMAIN wpc : Valid(w)}

\* how many entries of an archive entry equal x
CountOf(entry, x) == Cardinality({i \in DOMAIN entry.data : entry.data[i] = x})

\* C5: whatever the interleaving, the finalized store holds exactly the pairs
\* (transform(file), class(file)) of the discovered files whose shorter side is
\* at least image_size, each once; for catA with 3 valid images and catB with 2
\* valid and 1 undersized, the archive has 5 features and the labels 0, 0, 0, 1, 1.
C5_RetainedPairs ==
    /\ pc \in {"open_archive", "write_features", "write_labels", "close_archive"} =>
          /\ features_shape = Cardinality(ValidTasks)
          /\ labels_shape = Cardinality(ValidTasks)
          /\ Stored = {PairOf(w) : w \in ValidTasks}
    /\ pc = "returned" =>
          /\ archive.state = "closed"
          /\ Len(archive.entries) = 2
          /\ archive.entries[1] = Entry("features.npy", Cardinality(ValidTasks), features_data)
          /\ archive.entries[2] = Entry("labels.npy", Cardinality(ValidTasks), labels_data)
          /\ {<<archive.entries[1].data[i], archive.entries[2].data[i]>> :
                 i \in 0..(Cardinality(ValidTasks) - 1)} = {PairOf(w) : w \in ValidTasks}
    /\ (pc = "returned" /\ data_dir = EndToEndDir) =>
          /\ archive.entries[1].shape = 5
          /\ archive.entries[2].shape = 5
          /\ CountOf(archive.entries[2], 0) = 3
          /\ CountOf(archive.entries[2], 1) = 2

\* the end-to-end directory packaged, a file of catB stored before one of catA
C5_Witness ==
    /\ pc = "returned"
    /\ data_dir = EndToEndDir
    /\ \E i, j \in DOMAIN archive.entries[2].data :
          /\ i < j
          /\ archive.entries[2].data[i] = 1
          /\ archive.entries[1].data[i].src.subdir = 2
          /\ archive.entries[2].data[j] = 0
          /\ archive.entries[1].data[j].src.subdir = 1

\* C6 (as claimed): every discovered file is labelled with the rank, from 0, of
\* its subdirectory among the sorted immediate subdirectories.
C6_LabelIsSubdirRank ==
    pc /= "glob" => \A k \in 1..Len(files) : classes[k] = files[k].subdir - 1

UndersizedTasks == {w \in DOMAIN wpc : Undersized(w)}

\* C7: a task whose image has its shorter side below image_size is skipped: it
\* logs, reserves nothing and writes nothing, and ImageTooSmall never leaves
\* the pipeline; no other image is skipped (a shorter side of exactly
\* image_size is kept), and after the parallel phase the counter is the number
\* of discovered files minus the number of undersized ones.
C7_TooSmallSkipped ==
    /\ \A w \in DOMAIN wpc :
          /\ (Undersized(w) /\ wpc[w] /= "idle") =>
                /\ wpc[w] = "skipped"
                /\ w \in logged
                /\ reservation[w] = -1
                /\ \A i \in DOMAIN feature_writers :
                      w \notin feature_writers[i] /\ w \notin label_writers[i]
          /\ wpc[w] = "skipped" => Undersized(w)
    /\ exc /= "ImageTooSmall"
    /\ pc \in {"resize_features", "resize_labels", "open_archive", "write_features",
               "write_labels", "close_archive", "returned"} =>
          target = num_files - Cardinality(UndersizedTasks)

\* packaged with one image skipped and one of exactly image_size kept
C7_Witness ==
    /\ pc = "returned"
    /\ \E w \in DOMAIN wpc : wpc[w] = "skipped"
    /\ \E w \in DOMAIN wpc : wpc[w] = "done" /\ ContentOf(w) = ExactImage
    /\ target = num_files - 1

\* C8: the counter never exceeds the number of discovered files, the capacity of
\* both arrays; every index a task writes is inside both arrays; every label
\* stored below the counter is a label file discovery returned.
C8_WithinCapacity ==
    /\ target <= num_files
    /\ \A w \in Reserved :
          /\ reservation[w] \in DOMAIN features_data
          /\ reservation[w] \in DOMAIN labels_data
    /\ \A i \in DOMAIN feature_writers :
          (feature_writers[i] /= {} \/ label_writers[i] /= {}) => i < num_files
    /\ \A i \in 0..(target - 1) :
          i \in DOMAIN labels_data => labels_data[i] \in Range(classes)

\* every slot of the arrays reserved, the last label written
C8_Witness ==
    /\ pc = "parallel"
    /\ num_files = MaxFiles
    /\ target = num_files
    /\ label_writers[num_files - 1] /= {}
    /\ labels_data[num_files - 1] > 0

\* C9: when create_dataset has returned or raised, no temporary file it created
\* is left: both are deleted whenever both were created.
C9_TemporaryFilesDeleted ==
    pc \in {"returned", "raised"} =>
        /\ features_file /= "exists"
        /\ labels_file /= "exists"
        /\ features_header /= -1 => (features_file = "removed" /\ labels_file = "removed")

\* raised by a task's error, both files deleted, another task still at work
C9_Witness ==
    /\ pc = "raised"
    /\ exc = "AttributeError"
    /\ features_file = "removed"
    /\ labels_file = "removed"
    /\ \E w \in DOMAIN wpc : Active(w)

\* C10: when discovery finds no image file the pipeline fails with the
\* no-images error and nothing else happens: no temporary file, no
\* memory-mapped array, no task, no archive.
C10_NoImagesNoStorage ==
    glob_image_files(data_dir).files = <<>> =>
        /\ pc \in {"glob", "check", "raised"}
        /\ pc = "raised" => exc = "IOError"
        /\ pc /= "raised" => exc = "none"
        /\ features_file = "none"
        /\ labels_file = "none"
        /\ features_header = -1
        /\ labels_header = -1
        /\ features_data = <<>>
        /\ labels_data = <<>>
        /\ wpc = <<>>
        /\ archive = NoArchive

\* failed on a directory that holds files, none of them an image
C10_Witness ==
    /\ pc = "raised"
    /\ exc = "IOError"
    /\ files = <<>>
    /\ DOMAIN data_dir.contents /= {}

\* the first finalization step has begun
FinalizationBegun ==
    \/ pc \in {"resize_features", "resize_labels"}
    \/ finalized.features + finalized.labels > 0

C11_Order ==
    /\ finalized.features <= 1
    /\ finalized.labels <= 1
    /\ pc = "returned" => (finalized.features = 1 /\ finalized.labels = 1)
    /\ FinalizationBegun => \A w \in DOMAIN wpc : wpc[w] \in {"done", "skipped"}
    /\ finalized.labels = 1 => finalized.features = 1
    /\ archive /= NoArchive => (finalized.features = 1 /\ finalized.labels = 1)

InLock == {w \in DOMAIN wpc : wpc[w] \in {"reserve", "incr_load", "incr_store", "release"}}

C12_Holder ==
    /\ Cardinality(InLock) <= 1
    /\ \A w \in DOMAIN wpc : lock = w <=> w \in InLock
    /\ lock /= -1 => lock \in InLock

\* C12: at most one task is inside the critical section; a task loads its image
\* and writes the arrays only while it does not hold the lock; the steps a task
\* takes while holding it only read the counter and increment it.
C12_MinimalCriticalSection ==
    /\ [](C12_Holder)
    /\ [][\A w \in DOMAIN wpc :
            /\ (wpc[w] \in {"idle", "write_features", "write_labels"} /\ wpc'[w] /= wpc[w])
                  => (lock /= w /\ lock' /= w)
            /\ (lock = w /\ wpc'[w] /= wpc[w])
                  => UNCHANGED <<img, logged, features_data, labels_data,
                                 feature_writers, label_writers>>]_vars

\* one task inside the lock while another is between its two array writes
C12_Witness ==
    \E v, w \in DOMAIN wpc :
        /\ lock = w
        /\ wpc[w] = "incr_store"
        /\ wpc[v] = "write_labels"
        /\ features_data[reservation[v]] = img[v]

\* C13 (as claimed): after finalization each backing file has the counter as
\* the leading dimension of its header and holds exactly that many entries, the
\* unused tail of the allocation gone.
C13_StorageCut ==
    pc \in {"open_archive", "write_features", "write_labels", "close_archive"} =>
        /\ features_header = target
        /\ labels_header = target
        /\ DOMAIN features_data = 0..(target - 1)
        /\ DOMAIN labels_data = 0..(target - 1)

\* C14: with d the number of devices of the strategy (the GPUs, or the one CPU
\* when there is none), get_per_replica_batch_size raises ValueError whenever d
\* does not divide the global batch size, and otherwise returns the quotient,
\* so that result * d is the global batch size; it has built no data pipeline
\* when it raises.
C14_PerReplicaBatchSize ==
    replica.pc \in {"returned", "raised"} =>
        LET d == DeviceCount(replica.n_gpus)
            g == replica.global_batch_size
        IN  /\ g % d /= 0 => (replica.pc = "raised" /\ replica.exc = "ValueError")
            /\ g % d = 0 => (replica.pc = "returned" /\ replica.exc = "none"
                             /\ replica.result * d = g)
            /\ replica.pc = "raised" => ds = NoDataset

\* raised for a batch of 6 on 4 GPUs
C14_Witness ==
    /\ replica.pc = "raised"
    /\ replica.global_batch_size = 6
    /\ replica.n_gpus = 4

MinOf(a, b) == IF a <= b THEN a ELSE b

MaxOf(a, b) == IF a >= b THEN a ELSE b

\* C15: for an image of height H and width W with min(H, W) >= S the call returns,
\* and the crop keeps the whole shorter axis and, of the longer axis, the range
\* [o, o + min(H, W)) with o = (max(H, W) - min(H, W)) div 2: a square of side
\* min(H, W) inside the image, the whole image when H = W; for 200 x 100 and
\* S = 50 it is rows [50, 150) and columns [0, 100).
C15_CentredCrop ==
    LET H == crop.shape[1]
        W == crop.shape[2]
        m == MinOf(H, W)
        o == (MaxOf(H, W) - m) \div 2
        rows == crop.img.rows
        cols == crop.img.cols
    IN  /\ (crop.pc \in {"returned", "raised"} /\ m >= crop.image_size) =>
              /\ crop.pc = "returned"
              /\ H <= W => (rows = <<0, H>> /\ cols = <<o, o + m>>)
              /\ H >= W => (rows = <<o, o + m>> /\ cols = <<0, W>>)
              /\ rows[2] - rows[1] = m
              /\ cols[2] - cols[1] = m
              /\ 0 <= rows[1] /\ rows[2] <= H
              /\ 0 <= cols[1] /\ cols[2] <= W
              /\ H = W => (rows = <<0, H>> /\ cols = <<0, W>>)
        /\ (crop.pc = "returned" /\ crop.shape = <<200, 100>> /\ crop.image_size = 50) =>
              (rows = <<50, 150>> /\ cols = <<0, 100>>)

\* the 200 x 100 image cropped for size 50
C15_Witness ==
    /\ crop.pc = "returned"
    /\ crop.shape = <<200, 100>>
    /\ crop.image_size = 50
    /\ crop.img.rows = <<50, 150>>
    /\ crop.img.side = 50

\* the labels array of the archive
ArchiveLabels == archive.entries[2].data

\* C16 (as claimed): the class count get_train_data exposes is the number of
\* distinct labels in the archive, for every archive create_dataset produces.
C16_CountsDistinctLabels ==
    pc = "returned" /\ ds.state = "built" =>
        ds.num_classes = Cardinality(Range(ArchiveLabels))

\* C16 (amended): for an archive with at least one entry ds.num_classes is the
\* largest label of the archive plus one, which is the number of distinct
\* labels exactly when every value from 0 to the largest occurs; for an archive
\* without entries get_train_data raises.
C16_LargestLabelPlusOne ==
    pc = "returned" /\ ds.state /= "none" =>
        /\ ds.n = target
        /\ ArchiveLabels = <<>> <=> ds.state = "raised"
        /\ ds.state = "built" =>
              /\ ds.num_classes - 1 \in Range(ArchiveLabels)
              /\ \A x \in Range(ArchiveLabels) : x <= ds.num_classes - 1
              /\ ds.num_classes = Cardinality(Range(ArchiveLabels))
                    <=> Range(ArchiveLabels) = 0..(ds.num_classes - 1)

\* the only image of the first class skipped: one distinct label, two classes
C16_Witness ==
    /\ pc = "returned"
    /\ ds.state = "built"
    /\ ds.num_classes = 2
    /\ Range(ArchiveLabels) = {1}
    /\ Range(classes) = {0, 1}

\* every discovered file transforms or is too small
AllTransformOrTooSmall == \A w \in Tasks : ~Unreadable(w)

\* the parallel phase over such files
ParallelPhase == pc = "parallel" /\ AllTransformOrTooSmall

\* task w of the parallel phase is at the given place
TaskAt(w, places) == ParallelPhase /\ w \in DOMAIN wpc /\ wpc[w] \in places

\* C17: under fair scheduling, with every discovered file either transforming
\* or too small, every task of the parallel phase eventually returns, the lock
\* is released after every acquisition and no task waits for it forever, and
\* the resize of the files and then the writing of the archive are reached.
C17_Terminates ==
    /\ ParallelPhase ~> (pc = "parallel" /\ AllTasksReturned)
    /\ \A w \in TaskIds :
          /\ (lock = w) ~> (lock = -1)
          /\ TaskAt(w, {"acquire"}) ~> (lock = w)
          /\ TaskAt(w, {"idle"}) ~> TaskAt(w, {"done", "skipped"})
    /\ ParallelPhase ~> (pc = "resize_features")
    /\ (pc = "resize_features") ~> (pc = "write_features" /\ finalized = [features |-> 1, labels |-> 1])

\* a task waits for the lock another task holds
C17_Witness ==
    /\ ParallelPhase
    /\ \E v, w \in Tasks :
          /\ v /= w
          /\ lock = v
          /\ wpc[w] = "acquire"

\* C18: glob_image_files returns two sequences of equal length; the labels do
\* not decrease along the sequence, start at 0 when there is a file, and take
\* every value from 0 to the largest label, so that the files of one label are
\* contiguous.
C18_LabelsContiguousFromZero ==
    pc /= "glob" =>
        /\ Len(files) = Len(classes)
        /\ \A k \in 1..(Len(classes) - 1) : classes[k] <= classes[k + 1]
        /\ classes /= <<>> => classes[1] = 0
        /\ classes /= <<>> => Range(classes) = 0..classes[Len(classes)]
        /\ \A i, j, k \in DOMAIN classes :
              (i < j /\ j < k /\ classes[i] = classes[k]) => classes[j] = classes[i]

\* two labels though the first subdirectory holds no image file
C18_Witness ==
    /\ pc /= "glob"
    /\ Len(files) = 2
    /\ classes = <<0, 1>>
    /\ files[1].subdir = 2

====
